---------------------------- MODULE Spec2Model ----------------------------
(***************************************************************************)
(* NanoLog (nlog.c, nlog.h, nlog_config.h): the message formatting and     *)
(* backend dispatch pipeline.                                              *)
(*                                                                         *)
(* A C string is a sequence of one-character strings; the terminating NUL  *)
(* is implicit, so a buffer of n bytes holds a sequence of at most n-1     *)
(* elements.  The byte 0x1b is written "ESC" and is one element.           *)
(* The compile-time configuration of nlog_config.h is the variable cfg,    *)
(* fixed by Init and never changed: one behaviour is one build of the      *)
(* library, run as one process.                                            *)
(*                                                                         *)
(* An unsigned int is written as the integer that has the same UINT_BITS   *)
(* bits in two's complement: the values below 2^(UINT_BITS-1) as           *)
(* themselves, the values from 2^(UINT_BITS-1) up to UINT_MAX as the       *)
(* negative numbers that end with -1 for UINT_MAX.  %u prints the unsigned *)
(* reading of the bits, %d the signed one, as in C.                        *)
(***************************************************************************)
EXTENDS Naturals, Integers, Sequences, FiniteSets

VARIABLES cfg,            \* the macros of nlog_config.h of this build
          log_id,         \* static unsigned int log_id of nlog_messagev
          calls,          \* the entry-point invocations made, in program order
          sink,           \* what the configured output has received, one
                          \* element per writing backend call: the strings
                          \* handed to stdout, or the bytes put into the log file
          unflushed,      \* how many of the last bytes handed to stdout are
                          \* still in its buffer and not yet on the terminal
          backend_calls,  \* number of invocations of nlog_backend_output
          dir_exists,     \* whether LOG_FILE_OUTPUT_PATH exists
          diag            \* number of perror lines written to stderr

vars == <<cfg, log_id, calls, sink, unflushed, backend_calls, dir_exists, diag>>

---------------------------------------------------------------------------
(* Bounds of the model *)

\* At most MaxCalls entry-point invocations per behaviour.
MaxCalls == 2
\* Length of the over-long tag and of the over-long template.
LongTagLen == 490
LongFmtLen == 200
\* Invocations made in a run that begins just before the counter wraps.
WrapCalls == 4
\* Bytes that reach the log file in a write that fails part-way.
ShortWrite == 7

---------------------------------------------------------------------------
(* Program constants *)

NO_LEVEL == 0
ERROR    == 1
WARNING  == 2
INFO     == 3
DEBUG    == 4

MAX_NLOG_MESSAGE == 120
FINAL_MSG_SIZE   == 512
TMP_MSG_SIZE     == 600
TIMESTAMP_SIZE   == 20
MAX_TAG_SIZE     == 16

RECURSIVE Pow2(_)
Pow2(n) == IF n = 0 THEN 1 ELSE 2 * Pow2(n - 1)

\* width of unsigned int (static unsigned int log_id)
UINT_BITS == 32

\* the largest int, 2^(UINT_BITS-1) - 1, and the smallest
INT_MAX == (Pow2(UINT_BITS - 2) - 1) * 2 + 1
INT_MIN == (0 - INT_MAX) - 1

\* the unsigned int with every bit set
UINT_MAX == 0 - 1

\* 2^(UINT_BITS/2): an unsigned int is hi * HalfMod + lo with both below it
HalfMod == Pow2(UINT_BITS \div 2)

\* n + 1 of unsigned arithmetic: modulo 2^UINT_BITS, UINT_MAX + 1 is 0
UIntInc(n) == IF n = INT_MAX THEN INT_MIN ELSE n + 1

\* const char *new_execution_msg
new_execution_msg ==
    <<"\n">> \o [i \in 1..10 |-> "-"] \o
    <<" ", "N", "E", "W", " ", "E", "X", "E", "C", "U", "T", "I", "O", "N", " ">> \o
    [i \in 1..11 |-> "-"] \o <<"\n", "\n">>

\* nlog_config.h as shipped
DefaultConfig ==
    [ENABLE_LOG |-> 1, USE_COLOR |-> 0, NLOG_MIN_LEVEL |-> ERROR,
     ENABLE_ERROR_LOGS |-> 1, ENABLE_WARNING_LOGS |-> 1,
     ENABLE_INFO_LOGS |-> 1, ENABLE_DEBUG_LOGS |-> 1,
     NLOG_OUTPUT |-> 0, ENABLE_TIMESTAMP |-> 1]

---------------------------------------------------------------------------
(* The C library's bounded formatting *)

Min(a, b) == IF a < b THEN a ELSE b

Digits == <<"0", "1", "2", "3", "4", "5", "6", "7", "8", "9">>

\* the decimal digits of n >= 0
RECURSIVE Dec(_)
Dec(n) == IF n < 10 THEN <<Digits[n + 1]>>
          ELSE Dec(n \div 10) \o <<Digits[(n % 10) + 1]>>

\* the two halves of the unsigned reading of n
HiHalf(n) == IF n >= 0 THEN n \div HalfMod ELSE (HalfMod - 1) - ((0 - (n + 1)) \div HalfMod)
LoHalf(n) == IF n >= 0 THEN n % HalfMod ELSE (HalfMod - 1) - ((0 - (n + 1)) % HalfMod)

\* the decimal digits of hi * HalfMod + lo, by long division by ten
RECURSIVE DecHalves(_, _)
DecHalves(hi, lo) ==
    IF hi = 0 THEN Dec(lo)
    ELSE LET t == (hi % 10) * HalfMod + lo
         IN  DecHalves(hi \div 10, t \div 10) \o <<Digits[(t % 10) + 1]>>

\* %u
DecUnsigned(n) == DecHalves(HiHalf(n), LoHalf(n))

\* %d, %i (the magnitude of INT_MIN is its unsigned reading)
DecSigned(n) ==
    IF n = INT_MIN THEN <<"-">> \o DecUnsigned(n)
    ELSE IF n < 0 THEN <<"-">> \o Dec(0 - n) ELSE Dec(n)

HexDigits == Digits \o <<"a", "b", "c", "d", "e", "f">>

RECURSIVE Hex(_)
Hex(n) == IF n < 16 THEN <<HexDigits[n + 1]>>
          ELSE Hex(n \div 16) \o <<HexDigits[(n % 16) + 1]>>

\* %x
HexUnsigned(n) ==
    IF HiHalf(n) = 0 THEN Hex(LoHalf(n))
    ELSE LET lo == Hex(LoHalf(n))
             zeros == (UINT_BITS \div 8) - Len(lo)
         IN  Hex(HiHalf(n)) \o (IF zeros > 0 THEN [i \in 1..zeros |-> "0"] ELSE <<>>) \o lo

\* the printable characters of ASCII, from code 32 (space) on; the grave
\* accent (code 96) is written "GRAVE" and is one element
Printable ==
    <<" ", "!", "\"", "#", "$", "%", "&", "'", "(", ")", "*", "+", ",", "-", ".", "/",
      "0", "1", "2", "3", "4", "5", "6", "7", "8", "9", ":", ";", "<", "=", ">", "?",
      "@", "A", "B", "C", "D", "E", "F", "G", "H", "I", "J", "K", "L", "M", "N", "O",
      "P", "Q", "R", "S", "T", "U", "V", "W", "X", "Y", "Z", "[", "\\", "]", "^", "_",
      "GRAVE", "a", "b", "c", "d", "e", "f", "g", "h", "i", "j", "k", "l", "m", "n", "o",
      "p", "q", "r", "s", "t", "u", "v", "w", "x", "y", "z", "{", "|", "}", "~">>

\* What the model gives no value to: a call whose behaviour the C standard
\* leaves undefined, or a conversion the model does not cover.  Nothing is
\* derived from it, and evaluating it is an error.
NotModelled == CHOOSE s \in {} : TRUE

\* %c of an int holding a printable character
CharOf(n) == IF n >= 32 /\ n <= 126 THEN <<Printable[n - 31]>> ELSE NotModelled

\* a converted text right-justified in a field of width w
PadLeft(w, text) ==
    IF w > Len(text) THEN [i \in 1..(w - Len(text)) |-> " "] \o text ELSE text

IsDigit(ch) == ch \in {"0", "1", "2", "3", "4", "5", "6", "7", "8", "9"}
DigitOf(ch) == (CHOOSE d \in 1..10 : Digits[d] = ch) - 1

\* the value of the decimal digits fmt[i..j-1] (0 when there are none)
RECURSIVE Number(_, _, _)
Number(fmt, i, j) ==
    IF i >= j THEN 0 ELSE Number(fmt, i, j - 1) * 10 + DigitOf(fmt[j - 1])

\* the first position from q on that holds no digit (Len(fmt) + 1 if none)
RECURSIVE SkipDigits(_, _)
SkipDigits(fmt, q) ==
    IF q <= Len(fmt) /\ IsDigit(fmt[q]) THEN SkipDigits(fmt, q + 1) ELSE q

\* the whole text a printf-style format produces from position i of fmt on,
\* consuming args from position k on.  The ordinary characters up to the
\* next '%' are copied as they are; a conversion specification is '%', an
\* optional field width in digits, and one of d i u x c s, or it is "%%".
\* Flags, precisions, length modifiers and the other conversions are not
\* covered, and a '%' that ends the template is undefined in C.
RECURSIVE FormatFrom(_, _, _, _)
FormatFrom(fmt, i, args, k) ==
    LET P == {j \in i..Len(fmt) : fmt[j] = "%"} IN
    IF P = {} THEN SubSeq(fmt, i, Len(fmt))
    ELSE LET j == CHOOSE q \in P : \A r \in P : q <= r
             lit == SubSeq(fmt, i, j - 1)
             \* the position of the conversion character, after the width
             e == SkipDigits(fmt, j + 1)
             w == Number(fmt, j + 1, e)
             conv == IF e > Len(fmt) THEN "" ELSE fmt[e]
             \* a width that begins with 0 is the flag 0
             plain == (e = j + 1) \/ fmt[j + 1] # "0"
         IN  CASE plain /\ conv \in {"d", "i"} ->
                      lit \o PadLeft(w, DecSigned(args[k]))
                          \o FormatFrom(fmt, e + 1, args, k + 1)
               [] plain /\ conv = "u" ->
                      lit \o PadLeft(w, DecUnsigned(args[k]))
                          \o FormatFrom(fmt, e + 1, args, k + 1)
               [] plain /\ conv = "x" ->
                      lit \o PadLeft(w, HexUnsigned(args[k]))
                          \o FormatFrom(fmt, e + 1, args, k + 1)
               [] plain /\ conv = "c" ->
                      lit \o PadLeft(w, CharOf(args[k]))
                          \o FormatFrom(fmt, e + 1, args, k + 1)
               [] plain /\ conv = "s" ->
                      lit \o PadLeft(w, args[k])
                          \o FormatFrom(fmt, e + 1, args, k + 1)
               [] e = j + 1 /\ conv = "%" ->
                      lit \o <<"%">> \o FormatFrom(fmt, e + 1, args, k)
               [] OTHER -> NotModelled

Format(fmt, args) == FormatFrom(fmt, 1, args, 1)

\* snprintf without its bound (sprintf)
Snprintf_Unbounded(size, fmt, args) == Format(fmt, args)

\* snprintf(buf, size, fmt, args...) and vsnprintf: at most size-1 characters
\* are stored, then the terminator
Snprintf(size, fmt, args) ==
    LET s == Format(fmt, args) IN SubSeq(s, 1, Min(Len(s), size - 1))

Pad2(n) == IF n < 10 THEN <<"0">> \o Dec(n) ELSE Dec(n)

\* char timestamp[20] as the following "%s" reads it, after
\* strftime(timestamp, sizeof(timestamp), "%Y-%m-%d %H:%M:%S", tm_info).
\* When the text and its terminator do not fit (years from 10000 on)
\* strftime returns 0 and the content of the array is indeterminate: what is
\* read then is tm.uninit, whatever the environment of the call makes it.
Strftime(tm) ==
    LET s == Dec(tm.year) \o <<"-">> \o Pad2(tm.mon) \o <<"-">> \o Pad2(tm.mday)
             \o <<" ">> \o Pad2(tm.hour) \o <<":">> \o Pad2(tm.min)
             \o <<":">> \o Pad2(tm.sec)
    IN  IF Len(s) < TIMESTAMP_SIZE THEN s ELSE tm.uninit

---------------------------------------------------------------------------
(* nlog.c: private functions *)

ESC_RESET == <<"ESC", "[", "0", "m">>

get_level_color(level) ==
    CASE level = ERROR   -> <<"ESC", "[", "3", "1", "m">>
      [] level = WARNING -> <<"ESC", "[", "3", "3", "m">>
      [] level = INFO    -> <<"ESC", "[", "3", "4", "m">>
      [] level = DEBUG   -> <<"ESC", "[", "3", "2", "m">>
      [] OTHER           -> <<"ESC", "[", "0", "m">>

\* get_level_string with ERROR and WARNING exchanged
get_level_string_Swapped(level) ==
    CASE level = ERROR   -> <<"W">>
      [] level = WARNING -> <<"E">>
      [] level = INFO    -> <<"I">>
      [] level = DEBUG   -> <<"D">>
      [] OTHER           -> <<"_">>

get_level_string(level) ==
    CASE level = ERROR   -> <<"E">>
      [] level = WARNING -> <<"W">>
      [] level = INFO    -> <<"I">>
      [] level = DEBUG   -> <<"D">>
      [] OTHER           -> <<"_">>

\* The four format strings of nlog_messagev, chosen by ENABLE_TIMESTAMP and
\* USE_COLOR.
HeadFmt == <<"[", "%", "u", "]", " ", "%", "s", " ", ":", " ", "[", "%", "s", "]", " ">>
StampFmt == <<"[", "%", "s", "]", " ">>

FinalFmt(c) ==
    (IF c.USE_COLOR # 0 THEN <<"%", "s">> ELSE <<>>)
    \o HeadFmt
    \o (IF c.ENABLE_TIMESTAMP # 0 THEN StampFmt ELSE <<>>)
    \o <<"%", "s">>
    \o (IF c.USE_COLOR # 0 THEN ESC_RESET ELSE <<>>)
    \o <<"\n">>

\* the arguments passed with FinalFmt(c)
FinalArgs(c, id, level, TAG, timestamp, buffer) ==
    (IF c.USE_COLOR # 0 THEN <<get_level_color(level)>> ELSE <<>>)
    \o <<id, get_level_string(level), TAG>>
    \o (IF c.ENABLE_TIMESTAMP # 0 THEN <<timestamp>> ELSE <<>>)
    \o <<buffer>>

\* char buffer[MAX_NLOG_MESSAGE]; vsnprintf(buffer, MAX_NLOG_MESSAGE, fmt, args)
UserMessage(fmt, args) == Snprintf(MAX_NLOG_MESSAGE, fmt, args)

\* char final_msg[512] after its snprintf
FinalMsg(c, id, level, TAG, fmt, args, now) ==
    Snprintf(FINAL_MSG_SIZE, FinalFmt(c),
             FinalArgs(c, id, level, TAG, Strftime(now), UserMessage(fmt, args)))

\* the message nlog_messagev hands to nlog_backend_output when log_id is id
Dispatched(c, id, level, TAG, fmt, args, now) ==
    LET final_msg == FinalMsg(c, id, level, TAG, fmt, args, now) IN
    IF id = 1
    THEN Snprintf(TMP_MSG_SIZE, <<"%", "s", "%", "s">>, <<new_execution_msg, final_msg>>)
    ELSE final_msg

\* nlog_backend_output opening the log file with "w": a write replaces the
\* content of the file
nlog_backend_output_Truncate(msg, env) ==
    /\ backend_calls' = backend_calls + 1
    /\ CASE cfg.NLOG_OUTPUT = 0 ->
                /\ sink' = Append(sink, msg)
                /\ unflushed' = Min(env.kept, unflushed + Len(msg))
                /\ UNCHANGED <<dir_exists, diag>>
         [] cfg.NLOG_OUTPUT = 2 ->
                /\ dir_exists' = (dir_exists \/ env.mkdir_ok)
                /\ diag' = IF ~dir_exists /\ ~env.mkdir_ok THEN diag + 1 ELSE diag
                /\ sink' = IF dir_exists' /\ env.fopen_ok /\ env.written > 0
                           THEN <<SubSeq(msg, 1, Min(Len(msg), env.written))>> ELSE sink
                /\ UNCHANGED unflushed
         [] OTHER -> UNCHANGED <<sink, unflushed, dir_exists, diag>>

\* void nlog_backend_output(const char *msg)
\* Terminal: printf("%s", msg) hands msg to stdout and does not flush.  How
\* much of what stdout holds is written to the terminal before printf
\* returns is left to the buffering of the stream: env.kept is the number
\* of bytes the C library may keep back after this call, and the bytes
\* handed over and not kept back have been written, in order, in as many
\* writes as the library chooses.  File: fopen "a", then fputs and fclose
\* whose results are not looked at: env.written is the number of bytes of
\* msg that the two get into the file (all of msg when they succeed, fewer
\* or none when the write fails, as on a full disk); nothing is added to the
\* file when fopen returns no stream.
nlog_backend_output(msg, env) ==
    /\ backend_calls' = backend_calls + 1
    /\ CASE cfg.NLOG_OUTPUT = 0 ->
                /\ sink' = Append(sink, msg)
                /\ unflushed' = Min(env.kept, unflushed + Len(msg))
                /\ UNCHANGED <<dir_exists, diag>>
         [] cfg.NLOG_OUTPUT = 2 ->
                /\ dir_exists' = (dir_exists \/ env.mkdir_ok)
                /\ diag' = IF ~dir_exists /\ ~env.mkdir_ok THEN diag + 1 ELSE diag
                /\ sink' = IF dir_exists' /\ env.fopen_ok /\ env.written > 0
                           THEN Append(sink, SubSeq(msg, 1, Min(Len(msg), env.written)))
                           ELSE sink
                /\ UNCHANGED unflushed
         [] OTHER -> UNCHANGED <<sink, unflushed, dir_exists, diag>>

---------------------------------------------------------------------------
(* nlog.c: public function, and the macros of nlog.h *)

\* nlog_messagev with a counter that stays at its largest value
nlog_messagev_Saturate(level, TAG, fmt, args, env) ==
    /\ log_id' = IF log_id = UINT_MAX THEN log_id ELSE UIntInc(log_id)
    /\ nlog_backend_output(Dispatched(cfg, log_id', level, TAG, fmt, args, env.now), env)

\* void nlog_messagev(level, TAG, fmt, ...)
nlog_messagev(level, TAG, fmt, args, env) ==
    /\ log_id' = UIntInc(log_id)
    /\ nlog_backend_output(Dispatched(cfg, log_id', level, TAG, fmt, args, env.now), env)

NoOp == UNCHANGED <<log_id, sink, unflushed, backend_calls, dir_exists, diag>>

Call(op, level, TAG, fmt, args, env) ==
    [op |-> op, level |-> level, tag |-> TAG, fmt |-> fmt, args |-> args, env |-> env]

\* LOGE that ignores ENABLE_ERROR_LOGS
LOGE_Always(TAG, fmt, args, env) ==
    /\ calls' = Append(calls, Call("LOGE", ERROR, TAG, fmt, args, env))
    /\ nlog_messagev(ERROR, TAG, fmt, args, env)
    /\ UNCHANGED cfg

LOGE(TAG, fmt, args, env) ==
    /\ calls' = Append(calls, Call("LOGE", ERROR, TAG, fmt, args, env))
    /\ IF cfg.ENABLE_ERROR_LOGS # 0
       THEN nlog_messagev(ERROR, TAG, fmt, args, env) ELSE NoOp
    /\ UNCHANGED cfg

LOGW(TAG, fmt, args, env) ==
    /\ calls' = Append(calls, Call("LOGW", WARNING, TAG, fmt, args, env))
    /\ IF cfg.ENABLE_WARNING_LOGS # 0
       THEN nlog_messagev(WARNING, TAG, fmt, args, env) ELSE NoOp
    /\ UNCHANGED cfg

LOGI(TAG, fmt, args, env) ==
    /\ calls' = Append(calls, Call("LOGI", INFO, TAG, fmt, args, env))
    /\ IF cfg.ENABLE_INFO_LOGS # 0
       THEN nlog_messagev(INFO, TAG, fmt, args, env) ELSE NoOp
    /\ UNCHANGED cfg

LOGD(TAG, fmt, args, env) ==
    /\ calls' = Append(calls, Call("LOGD", DEBUG, TAG, fmt, args, env))
    /\ IF cfg.ENABLE_DEBUG_LOGS # 0
       THEN nlog_messagev(DEBUG, TAG, fmt, args, env) ELSE NoOp
    /\ UNCHANGED cfg

\* a caller invoking the public function itself
DirectCall(level, TAG, fmt, args, env) ==
    /\ calls' = Append(calls, Call("nlog_messagev", level, TAG, fmt, args, env))
    /\ nlog_messagev(level, TAG, fmt, args, env)
    /\ UNCHANGED cfg

---------------------------------------------------------------------------
(* Inputs *)

TagNET  == <<"N", "E", "T">>
TagLong20 == [i \in 1..20 |-> "T"]
TagHuge == [i \in 1..LongTagLen |-> "T"]

\* a template with its arguments
MsgCode42 == [fmt |-> <<"c", "o", "d", "e", " ", "%", "d">>, args |-> <<42>>]
MsgLong   == [fmt |-> [i \in 1..LongFmtLen |-> "x"], args |-> <<>>]

\* the local time of a call; uninit is what timestamp[] holds when strftime
\* leaves it unset, which no call at this date reads
Time1 == [year |-> 2025, mon |-> 4, mday |-> 30, hour |-> 9, min |-> 5, sec |-> 7,
          uninit |-> <<>>]

\* the environment of a call: the time, whether _mkdir and fopen succeed,
\* how many bytes stdout may keep in its buffer, and how many bytes a write
\* to the log file gets into it; here stdout is unbuffered and the file takes
\* whole messages
Env0 == [now |-> Time1, mkdir_ok |-> TRUE, fopen_ok |-> TRUE, kept |-> 0,
         written |-> TMP_MSG_SIZE]

Bits == {0, 1}

\* every setting of the global switch, the minimum level and the four
\* per-level flags; the other options as shipped
GateConfigs ==
    {[DefaultConfig EXCEPT !.ENABLE_LOG = g, !.NLOG_MIN_LEVEL = m,
                           !.ENABLE_ERROR_LOGS = e, !.ENABLE_WARNING_LOGS = w,
                           !.ENABLE_INFO_LOGS = i, !.ENABLE_DEBUG_LOGS = d] :
        g \in Bits, m \in NO_LEVEL..DEBUG, e \in Bits, w \in Bits, i \in Bits, d \in Bits}

\* every setting of color and timestamp, with every level let through
FmtConfigs ==
    {[DefaultConfig EXCEPT !.USE_COLOR = c, !.ENABLE_TIMESTAMP = t,
                           !.NLOG_MIN_LEVEL = DEBUG] : c \in Bits, t \in Bits}

InitWith(Configs) ==
    /\ cfg \in Configs
    /\ log_id = 0
    /\ calls = <<>>
    /\ sink = <<>>
    /\ unflushed = 0
    /\ backend_calls = 0
    /\ dir_exists \in BOOLEAN
    /\ diag = 0

\* the values a caller of nlog_messagev passes as level: the enumerators of
\* enum nlog_level and one value that is none of them
Levels == NO_LEVEL..(DEBUG + 1)

\* Level gating: every configuration of the gate, one tag and one template.
GateTags == {TagNET}
GateMsgs == {MsgCode42}

Init == InitWith(GateConfigs) /\ dir_exists = TRUE

\* the model stops after MaxCalls invocations
More == Len(calls) < MaxCalls

Next ==
    \/ \E TAG \in GateTags, m \in GateMsgs : More /\ LOGE(TAG, m.fmt, m.args, Env0)
    \/ \E TAG \in GateTags, m \in GateMsgs : More /\ LOGW(TAG, m.fmt, m.args, Env0)
    \/ \E TAG \in GateTags, m \in GateMsgs : More /\ LOGI(TAG, m.fmt, m.args, Env0)
    \/ \E TAG \in GateTags, m \in GateMsgs : More /\ LOGD(TAG, m.fmt, m.args, Env0)
    \/ \E TAG \in GateTags, m \in GateMsgs, level \in Levels :
           More /\ DirectCall(level, TAG, m.fmt, m.args, Env0)

Spec == Init /\ [][Next]_vars

\* The build of nlog_config.h as shipped.
InitShipped == InitWith({DefaultConfig}) /\ dir_exists = TRUE
SpecShipped == InitShipped /\ [][Next]_vars

\* Formatting: every color/timestamp configuration, short and over-long
\* tags and templates, every level value, passed to nlog_messagev as the
\* macros pass them.
FmtTags == {TagNET, TagLong20, TagHuge}
FmtMsgs == {MsgCode42, MsgLong}

InitFmt == InitWith(FmtConfigs) /\ dir_exists = TRUE

NextFmt ==
    \E TAG \in FmtTags, m \in FmtMsgs, level \in Levels :
        More /\ DirectCall(level, TAG, m.fmt, m.args, Env0)

SpecFmt == InitFmt /\ [][NextFmt]_vars

\* File backend: NLOG_OUTPUT 2 with every level let through; the output
\* directory exists or not at process start, each call finds _mkdir and
\* fopen succeeding or failing, and a write to the opened file puts the
\* whole message, its first ShortWrite bytes or nothing into the file.
FileConfigs == {[DefaultConfig EXCEPT !.NLOG_OUTPUT = 2, !.NLOG_MIN_LEVEL = DEBUG]}

FileEnvs ==
    {e \in [now : {Time1}, mkdir_ok : BOOLEAN, fopen_ok : BOOLEAN, kept : {0},
            written : {0, ShortWrite, TMP_MSG_SIZE}] :
        e.written # TMP_MSG_SIZE => e.mkdir_ok /\ e.fopen_ok}

InitFile == InitWith(FileConfigs)

NextFile ==
    \/ \E env \in FileEnvs : More /\ LOGE(TagNET, MsgCode42.fmt, MsgCode42.args, env)
    \/ \E env \in FileEnvs : More /\ LOGW(TagNET, MsgCode42.fmt, MsgCode42.args, env)
    \/ \E env \in FileEnvs : More /\ LOGI(TagNET, MsgCode42.fmt, MsgCode42.args, env)
    \/ \E env \in FileEnvs : More /\ LOGD(TagNET, MsgCode42.fmt, MsgCode42.args, env)

SpecFile == InitFile /\ [][NextFile]_vars

\* The run around the wrap of the counter: every backend selection of
\* nlog_config.h with every level let through, one entry point.  The initial
\* state is the process after UINT_MAX - 1 calls of nlog_messagev in a run in
\* which the output directory has been missing and could not be created, so
\* that no call has written to the log file so far; calls, sink,
\* backend_calls and diag record the run from that state on.  From then on
\* _mkdir succeeds, fopen succeeds or fails on each call, a write to the
\* opened file is whole, and stdout flushes all it holds or keeps back up to
\* one message.
WrapConfigs ==
    {[DefaultConfig EXCEPT !.NLOG_OUTPUT = o, !.NLOG_MIN_LEVEL = DEBUG] : o \in 0..4}

WrapEnvs ==
    {[now |-> Time1, mkdir_ok |-> TRUE, fopen_ok |-> f, kept |-> k,
      written |-> TMP_MSG_SIZE] : f \in BOOLEAN, k \in {0, TMP_MSG_SIZE}}

InitWrap ==
    /\ cfg \in WrapConfigs
    /\ log_id = UINT_MAX - 1
    /\ calls = <<>>
    /\ sink = <<>>
    /\ unflushed = 0
    /\ backend_calls = 0
    /\ dir_exists = FALSE
    /\ diag = 0

MoreWrap == Len(calls) < WrapCalls

NextWrap ==
    \E env \in WrapEnvs : MoreWrap /\ LOGE(TagNET, MsgCode42.fmt, MsgCode42.args, env)

SpecWrap == InitWrap /\ [][NextWrap]_vars

---------------------------------------------------------------------------
(* Vocabulary of the claims *)

IsPrefix(p, s) == Len(p) <= Len(s) /\ SubSeq(s, 1, Len(p)) = p

Take(s, n) == SubSeq(s, 1, Min(Len(s), n))

\* a step that made one more invocation; the invocation it made
Stepped == Len(calls') = Len(calls) + 1
NewCall == calls'[Len(calls')]

\* a write without the banner it may start with
LineOf(w) ==
    IF IsPrefix(new_execution_msg, w)
    THEN SubSeq(w, Len(new_execution_msg) + 1, Len(w)) ELSE w

\* the per-level enable flag of a level (a level without a flag has none to
\* be switched off)
LevelFlag(level) ==
    CASE level = ERROR   -> cfg.ENABLE_ERROR_LOGS
      [] level = WARNING -> cfg.ENABLE_WARNING_LOGS
      [] level = INFO    -> cfg.ENABLE_INFO_LOGS
      [] level = DEBUG   -> cfg.ENABLE_DEBUG_LOGS
      [] OTHER           -> 1

\* the enable flag guarding a macro entry point
MacroFlag(op) ==
    CASE op = "LOGE" -> cfg.ENABLE_ERROR_LOGS
      [] op = "LOGW" -> cfg.ENABLE_WARNING_LOGS
      [] op = "LOGI" -> cfg.ENABLE_INFO_LOGS
      [] op = "LOGD" -> cfg.ENABLE_DEBUG_LOGS

Macros == {"LOGE", "LOGW", "LOGI", "LOGD"}

\* the level gate of the specification: global switch, minimum level and
\* per-level flag
Accepted(c) ==
    /\ cfg.ENABLE_LOG # 0
    /\ c.level <= cfg.NLOG_MIN_LEVEL
    /\ LevelFlag(c.level) # 0

AcceptedCalls == {i \in 1..Len(calls) : Accepted(calls[i])}

\* the level letters and colors as the specification lists them
SpecLetter(level) ==
    CASE level = ERROR   -> "E"
      [] level = WARNING -> "W"
      [] level = INFO    -> "I"
      [] level = DEBUG   -> "D"
      [] OTHER           -> "_"

SpecColor(level) ==
    CASE level = ERROR   -> <<"ESC", "[", "3", "1", "m">>
      [] level = WARNING -> <<"ESC", "[", "3", "3", "m">>
      [] level = INFO    -> <<"ESC", "[", "3", "2", "m">>
      [] level = DEBUG   -> <<"ESC", "[", "3", "4", "m">>
      [] OTHER           -> <<"ESC", "[", "0", "m">>

---------------------------------------------------------------------------
(* Level gating; checked under Spec *)

\* C1: an emission at a level numerically greater than NLOG_MIN_LEVEL,
\* through a macro or through nlog_messagev, writes nothing to the sink and
\* leaves the execution counter unchanged.
C1_MinLevelGate ==
    [][(Stepped /\ NewCall.level > cfg.NLOG_MIN_LEVEL)
         => (sink' = sink /\ log_id' = log_id)]_vars

\* C2: a macro entry point whose enable flag is 0 is a no-op (nothing
\* written, counter not advanced, backend not called), while a macro entry
\* point whose flag is set emits: the counter advances by one and one
\* backend write is made, which the terminal backend appends to the sink.
C2_LevelFlag ==
    [][(Stepped /\ NewCall.op \in Macros)
         => IF MacroFlag(NewCall.op) = 0
            THEN /\ sink' = sink
                 /\ log_id' = log_id
                 /\ backend_calls' = backend_calls
            ELSE /\ log_id' = UIntInc(log_id)
                 /\ backend_calls' = backend_calls + 1
                 /\ cfg.NLOG_OUTPUT = 0 =>
                       /\ Len(sink') = Len(sink) + 1
                       /\ SubSeq(sink', 1, Len(sink)) = sink
                       /\ Len(sink'[Len(sink')]) > 0]_vars

\* a build with warnings disabled and errors enabled, where LOGW was a no-op
\* and the LOGE after it emitted line number 1
C2_Witness ==
    /\ cfg.ENABLE_WARNING_LOGS = 0
    /\ cfg.ENABLE_ERROR_LOGS = 1
    /\ Len(calls) = 2
    /\ calls[1].op = "LOGW"
    /\ calls[2].op = "LOGE"
    /\ Len(sink) = 1
    /\ log_id = 1
    /\ backend_calls = 1

\* C3: with ENABLE_LOG = 0 nothing is ever written to the sink and the
\* execution counter never advances.
C3_GlobalEnable ==
    cfg.ENABLE_LOG = 0 => (sink = <<>> /\ log_id = 0 /\ backend_calls = 0)

\* C4: the counter equals the number of accepted emissions so far (0 at
\* start, one more per accepted emission, never reset), and the k-th line of
\* the sink displays sequence number k.
C4_Counter ==
    /\ log_id = Cardinality(AcceptedCalls)
    /\ \A k \in 1..Len(sink) :
          IsPrefix(<<"[">> \o Dec(k) \o <<"]">>, LineOf(sink[k]))

\* C5: there is exactly one backend write per accepted emission, and the
\* first write, and no later one, starts with the NEW EXECUTION banner,
\* followed in the same write by the line of the first accepted emission.
C5_Banner ==
    /\ backend_calls = Cardinality(AcceptedCalls)
    /\ Len(sink) = Cardinality(AcceptedCalls)
    /\ \A k \in 1..Len(sink) : IsPrefix(new_execution_msg, sink[k]) <=> (k = 1)
    /\ AcceptedCalls # {} =>
          LET first == CHOOSE i \in AcceptedCalls : \A j \in AcceptedCalls : i <= j
          IN  IsPrefix(new_execution_msg \o <<"[", "1", "]", " ">>
                         \o <<SpecLetter(calls[first].level)>>, sink[1])

---------------------------------------------------------------------------
(* Formatting; checked under SpecFmt, where every invocation reaches       *)
(* nlog_messagev and the terminal is the sink, so that sink[k] is the      *)
(* write of calls[k].                                                      *)

\* the value of the counter displayed by the k-th emission
IdOf(k) == k

\* the untruncated text of a template
Rendered(c) == Format(c.fmt, c.args)

\* "[<counter>] <letter> : [<tag>] <message>\n" composed from its parts
PlainText(id, letter, tag, message) ==
    <<"[">> \o Dec(id) \o <<"]", " ", letter, " ", ":", " ", "[">> \o tag
    \o <<"]", " ">> \o message \o <<"\n">>

\* the tag field of a line: the text after the first " : [" up to the next
\* "]" (to the end of the line when the line was cut before it)
TagField(line) ==
    LET starts == {p \in 1..(Len(line) - 3) :
                      SubSeq(line, p, p + 3) = <<" ", ":", " ", "[">>}
        p0 == CHOOSE p \in starts : \A q \in starts : p <= q
        ends == {q \in (p0 + 4)..Len(line) : line[q] = "]"}
        q0 == IF ends = {} THEN Len(line) + 1
              ELSE CHOOSE q \in ends : \A r \in ends : q <= r
    IN  SubSeq(line, p0 + 4, q0 - 1)

\* C6: the user message holds at most MAX_NLOG_MESSAGE-1 characters and the
\* formatted line at most 511; an over-long message or line is not
\* rejected: every emission advances the counter and performs its one sink
\* write.
C6_Bounded ==
    /\ \A i \in 1..Len(calls) :
          Len(UserMessage(calls[i].fmt, calls[i].args)) <= MAX_NLOG_MESSAGE - 1
    /\ log_id = Len(calls)
    /\ backend_calls = Len(calls)
    /\ Len(sink) = Len(calls)
    /\ \A k \in 1..Len(sink) :
          /\ Len(LineOf(sink[k])) <= FINAL_MSG_SIZE - 1
          /\ Len(LineOf(sink[k])) > 0

\* an emission whose template renders to more than 119 characters and whose
\* line was cut at 511 characters (its newline lost) was written, and the
\* counter advanced
C6_Witness ==
    \E k \in 1..Len(sink) :
        /\ Len(Rendered(calls[k])) > MAX_NLOG_MESSAGE - 1
        /\ Len(calls[k].tag) = LongTagLen
        /\ Len(LineOf(sink[k])) = FINAL_MSG_SIZE - 1
        /\ sink[k][Len(sink[k])] # "\n"
        /\ log_id >= k

ExampleCall(c) ==
    /\ c.level = ERROR
    /\ c.tag = <<"N", "E", "T">>
    /\ c.fmt = <<"c", "o", "d", "e", " ", "%", "d">>
    /\ c.args = <<42>>

ExampleLine ==
    <<"[", "1", "]", " ", "E", " ", ":", " ", "[", "N", "E", "T", "]", " ",
      "c", "o", "d", "e", " ", "4", "2", "\n">>

\* C7 as stated: with timestamps and color disabled the output of every
\* emission is exactly "[<counter>] <letter> : [<tag>] <message>\n", and
\* the first call of a process with Error, "NET", "code %d", 42 outputs
\* "[1] E : [NET] code 42\n".
C7_PlainOutput ==
    (cfg.USE_COLOR = 0 /\ cfg.ENABLE_TIMESTAMP = 0) =>
        /\ \A k \in 1..Len(sink) :
              sink[k] = PlainText(IdOf(k), SpecLetter(calls[k].level), calls[k].tag,
                                  Take(Rendered(calls[k]), MAX_NLOG_MESSAGE - 1))
        /\ (Len(sink) >= 1 /\ ExampleCall(calls[1])) => sink[1] = ExampleLine

\* C7 amended: with timestamps and color disabled the line of every
\* emission is the first 511 characters of
\* "[<counter>] <letter> : [<tag>] <message>\n", <message> being the first
\* MAX_NLOG_MESSAGE-1 characters of the rendered template; the write of the
\* emission whose counter is 1 is the banner followed by that line, so the
\* first call with Error, "NET", "code %d", 42 writes the banner and then
\* "[1] E : [NET] code 42\n".
C7_PlainLine ==
    (cfg.USE_COLOR = 0 /\ cfg.ENABLE_TIMESTAMP = 0) =>
        /\ \A k \in 1..Len(sink) :
              sink[k] =
                 (IF IdOf(k) = 1 THEN new_execution_msg ELSE <<>>)
                 \o Take(PlainText(IdOf(k), SpecLetter(calls[k].level), calls[k].tag,
                                   Take(Rendered(calls[k]), MAX_NLOG_MESSAGE - 1)),
                         FINAL_MSG_SIZE - 1)
        /\ (Len(sink) >= 1 /\ ExampleCall(calls[1]))
              => sink[1] = new_execution_msg \o ExampleLine

\* the example call came first and a call at an unmapped level with an
\* over-long tag second, both written, without timestamp and color
C7_Witness ==
    /\ cfg.USE_COLOR = 0
    /\ cfg.ENABLE_TIMESTAMP = 0
    /\ Len(sink) = 2
    /\ ExampleCall(calls[1])
    /\ sink[1] = new_execution_msg \o ExampleLine
    /\ calls[2].level = NO_LEVEL
    /\ Len(calls[2].tag) = LongTagLen
    /\ IsPrefix(<<"[", "2", "]", " ", "_", " ", ":", " ", "[", "T">>, sink[2])

\* the line the build without color produces for the k-th emission, and the
\* same line before snprintf cuts it
PlainOf(k) ==
    FinalMsg([cfg EXCEPT !.USE_COLOR = 0], IdOf(k), calls[k].level, calls[k].tag,
             calls[k].fmt, calls[k].args, calls[k].env.now)

PlainUncut(k) ==
    Format(FinalFmt([cfg EXCEPT !.USE_COLOR = 0]),
           FinalArgs([cfg EXCEPT !.USE_COLOR = 0], IdOf(k), calls[k].level, calls[k].tag,
                     Strftime(calls[k].env.now),
                     UserMessage(calls[k].fmt, calls[k].args)))

\* s wrapped: the prefix, s without its last character, the reset sequence,
\* the last character of s
Wrapped(prefix, s) ==
    prefix \o SubSeq(s, 1, Len(s) - 1) \o <<"ESC", "[", "0", "m">> \o <<s[Len(s)]>>

\* C8 as stated: with color enabled every emitted line is the line produced
\* with color disabled, with the level's escape prefix before it and
\* ESC[0m before its final newline.
C8_ColorWrap ==
    cfg.USE_COLOR # 0 =>
        \A k \in 1..Len(sink) :
            LineOf(sink[k]) = Wrapped(get_level_color(calls[k].level), PlainOf(k))

\* C9: the tag field of every emitted line has at most MAX_TAG_SIZE-1
\* characters.
C9_TagBounded ==
    \A k \in 1..Len(sink) : Len(TagField(LineOf(sink[k]))) <= MAX_TAG_SIZE - 1

\* C10: with color enabled every line starts with the color of its level:
\* Error ESC[31m, Warning ESC[33m, Info ESC[32m, Debug ESC[34m, any other
\* level ESC[0m.
C10_ColorOfLevel ==
    cfg.USE_COLOR # 0 =>
        \A k \in 1..Len(sink) : IsPrefix(SpecColor(calls[k].level), LineOf(sink[k]))

---------------------------------------------------------------------------
(* Backends; C11 checked under SpecFile *)

\* whether the fopen of the invocation c succeeds in the step being taken:
\* the directory exists (it did, or _mkdir created it) and fopen returns a
\* stream
OpenSucceeds(c) == (dir_exists \/ c.env.mkdir_ok) /\ c.env.fopen_ok

\* what nlog_messagev dispatches for the invocation c when the counter shows
\* id (the line, after the banner when id is 1)
LineFor(c, id) == Dispatched(cfg, id, c.level, c.tag, c.fmt, c.args, c.env.now)

\* the bytes of the text a write of the invocation c gets into the file
WrittenPart(c, text) == Take(text, c.env.written)

\* C11 as stated: with the file backend every accepted emission whose open
\* succeeds appends its own line, and nothing else, at the end of the log
\* file, so the file holds exactly the lines of those emissions in call
\* order; an emission whose open fails leaves the file as it was, returns to
\* the caller (the counter has advanced, the backend was called once) and
\* later emissions still append.
C11_FileAppend ==
    [][Stepped /\ cfg.NLOG_OUTPUT = 2 /\ Accepted(NewCall) =>
         /\ log_id' = UIntInc(log_id)
         /\ backend_calls' = backend_calls + 1
         /\ IF OpenSucceeds(NewCall)
            THEN sink' = Append(sink, LineFor(NewCall, log_id'))
            ELSE sink' = sink]_vars

\* C11 as the code has it: with the file backend every accepted emission
\* advances the counter and calls the backend once.  When its open succeeds
\* it adds at the end of the log file the bytes of its own line that the
\* write gets into the file, and nothing else: the whole line when the write
\* succeeds, a beginning of it or nothing when the write fails, which the
\* code does not look at.  When its open fails the file is left as it was.
\* Nothing of a failed open or write is written by a later call, the call
\* returns to the caller, and later emissions still append.
C11_FileAppendWritten ==
    [][Stepped /\ cfg.NLOG_OUTPUT = 2 /\ Accepted(NewCall) =>
         LET line == LineFor(NewCall, log_id')
             part == WrittenPart(NewCall, line)
         IN  /\ log_id' = UIntInc(log_id)
             /\ backend_calls' = backend_calls + 1
             /\ IF OpenSucceeds(NewCall) /\ part # <<>>
                THEN sink' = Append(sink, part)
                ELSE sink' = sink
             /\ (OpenSucceeds(NewCall) /\ NewCall.env.written >= Len(line))
                   => sink' = Append(sink, line)]_vars

\* the first emission found no directory and could not create it, the
\* second one created it, opened the file and was cut by a failing write
\* after ShortWrite bytes: the file holds the beginning of line 2 alone
C11_Witness ==
    /\ cfg.NLOG_OUTPUT = 2
    /\ Len(calls) = 2
    /\ \A i \in 1..2 : Accepted(calls[i])
    /\ ~calls[1].env.mkdir_ok
    /\ diag = 1
    /\ dir_exists
    /\ calls[2].env.fopen_ok
    /\ calls[2].env.written = ShortWrite
    /\ log_id = 2
    /\ backend_calls = 2
    /\ sink = <<Take(LineFor(calls[2], 2), ShortWrite)>>
    /\ IsPrefix(<<"[", "2", "]", " ">>, sink[1])

---------------------------------------------------------------------------
(* The counter around its wrap; C12 and C13 checked under SpecWrap *)

\* the counter after the i-th call of a behaviour of SpecWrap: call 1 is
\* emission number UINT_MAX (2^UINT_BITS - 1) of the process, call 2 is
\* emission number 2^UINT_BITS, call 3 is emission number 2^UINT_BITS + 1
RECURSIVE WrapCounter(_)
WrapCounter(i) == IF i = 0 THEN UINT_MAX - 1 ELSE UIntInc(WrapCounter(i - 1))

\* the write w shows the sequence number id
Displays(w, id) == IsPrefix(<<"[">> \o DecUnsigned(id) \o <<"]", " ">>, LineOf(w))

HasBanner(w) == IsPrefix(new_execution_msg, w)

\* in a run of SpecWrap the dispatch of emission number 1 wrote nothing
\* unless the backend is the terminal: the file could not be opened before
\* the initial state, and the other backends write nothing
FirstWroteNothing == cfg.NLOG_OUTPUT # 0

\* C12 as stated: every call advances the counter and calls the backend
\* once whether or not anything is written, and when the dispatch of
\* emission number 1 writes nothing, no write of the run carries the
\* NEW EXECUTION banner.
C12_NeverBanner ==
    /\ log_id = WrapCounter(Len(calls))
    /\ backend_calls = Len(calls)
    /\ FirstWroteNothing => \A k \in 1..Len(sink) : ~HasBanner(sink[k])

\* C13 as stated, on the terminal: the counter is 0 after 2^UINT_BITS
\* emissions, the emission after those displays 0, and the one after that
\* displays 1 and carries the banner.
C13_WrapNext ==
    cfg.NLOG_OUTPUT = 0 =>
        /\ Len(calls) = 2 => log_id = 0
        /\ Len(sink) >= 3 => Displays(sink[3], 0)
        /\ Len(sink) >= 4 => Displays(sink[4], 1) /\ HasBanner(sink[4])

\* C13 as the code has it, on the terminal: the counter is incremented
\* modulo 2^UINT_BITS, without a check, before it is displayed.  Emission
\* number UINT_MAX displays 4294967295; emission number 2^UINT_BITS itself
\* displays 0, without banner, and leaves the counter at 0; emission number
\* 2^UINT_BITS + 1 displays 1 and is preceded by the banner, in the same
\* process run; the next one displays 2.
C13_WrapAt ==
    cfg.NLOG_OUTPUT = 0 =>
        /\ log_id = WrapCounter(Len(calls))
        /\ Len(sink) = Len(calls)
        /\ \A k \in 1..Len(sink) :
              /\ Displays(sink[k], WrapCounter(k))
              /\ HasBanner(sink[k]) <=> (WrapCounter(k) = 1)
        /\ Len(sink) >= 1 =>
              /\ IsPrefix(<<"[", "4", "2", "9", "4", "9", "6", "7", "2", "9", "5", "]">>, sink[1])
              /\ ~HasBanner(sink[1])
        /\ Len(sink) >= 2 => IsPrefix(<<"[", "0", "]", " ">>, sink[2])
        /\ Len(sink) >= 3 =>
              sink[3] = new_execution_msg
                          \o FinalMsg(cfg, 1, calls[3].level, calls[3].tag, calls[3].fmt,
                                      calls[3].args, calls[3].env.now)
        /\ Len(sink) >= 4 => IsPrefix(<<"[", "2", "]", " ">>, sink[4])

\* the terminal after emission number 2^UINT_BITS + 1: the last but one
\* write shows 0, the last one shows 1 after the banner
C13_Witness ==
    /\ cfg.NLOG_OUTPUT = 0
    /\ Len(sink) = 3
    /\ log_id = 1
    /\ Displays(sink[1], UINT_MAX)
    /\ Displays(sink[2], 0)
    /\ ~HasBanner(sink[2])
    /\ HasBanner(sink[3])
    /\ Displays(sink[3], 1)

=============================================================================
